---- MODULE Spec2Model ----
(***************************************************************************)
(* A model of argcomb (src/argcomb/argcomb.py): the expression evaluator   *)
(* (ArgCombiner.internal_execute / execute_list, Python generators), the   *)
(* argument resolver (ArgCombiner.interpret_args) and the runner           *)
(* (ArgCombiner.run).                                                      *)
(*                                                                         *)
(* Python values are tagged records: the field t is the Python type.      *)
(* A Python str is the sequence of its characters, so that startswith,     *)
(* string concatenation and the regular expression of fmt are computed.    *)
(***************************************************************************)
EXTENDS Integers, Sequences, FiniteSets, TLC

VARIABLES
    \* ---- ArgCombiner.interpret_args, one call ----
    exprs,        \* the argument: a flattened list of expressions
    arg_values,   \* the local OrderedDict name -> values
    new_exprs,    \* the local result list
    idx,          \* position of the running for loop in exprs
    apc,          \* "pass1", "pass2", "returned" ("idle" outside SpecArgs)
    \* ---- ArgCombiner: construction, execute, run ----
    expr,         \* the expression given to run / internal_execute
    extra_args,   \* self.extra_args
    pretend,      \* self.pretend
    heap,         \* the dict objects holding environments, by reference
    calls,        \* how many times a deferred expression has been called
    gen,          \* the generator being iterated
    pc,           \* position of the consumer of the generator
    results,      \* the (new_expr, new_env) pairs received so far
    stdout,       \* commands printed (pretend mode)
    executed,     \* commands given to os.system, with the status returned
    stderr,       \* messages printed to sys.stderr
    exit_status   \* argument of sys.exit, -1 while the process has not exited

avars == <<exprs, arg_values, new_exprs, idx, apc>>
evars == <<expr, extra_args, pretend, heap, calls, gen, pc, results,
           stdout, executed, stderr, exit_status>>
vars == <<avars, evars>>

(***************************************************************************)
(* Bounds of the model.                                                    *)
(***************************************************************************)
MaxTokens == 4     \* longest token list given to interpret_args
MaxItems == 2      \* longest list expression drawn as an input

(***************************************************************************)
(* Python values.                                                          *)
(***************************************************************************)
PyNone == [t |-> "none"]
PyInt(n) == [t |-> "int", v |-> n]
PyStr(s) == [t |-> "str", v |-> s]
PyList(xs) == [t |-> "list", v |-> xs]
PyDict(kvs) == [t |-> "dict", v |-> kvs]   \* kvs: <<key, value>> pairs, keys unique

Arg(name, values, append, delete) ==
    [t |-> "Arg", name |-> name, values |-> values, append |-> append, delete |-> delete]
Selector(which, choices) == [t |-> "Selector", which |-> which, choices |-> choices]
Let(var, value, if_undefined) ==
    [t |-> "Let", var |-> var, value |-> value, if_undefined |-> if_undefined]

\* The callable returned by fmt(string).
fmt(string) == [t |-> "fn", string |-> string]

\* A dict as a function on its keys: d with d[k] = v set, and d without k.
DictSet(d, k, v) == [x \in DOMAIN d \cup {k} |-> IF x = k THEN v ELSE d[x]]
DictDel(d, k) == [x \in DOMAIN d \ {k} |-> d[x]]
EmptyDict == [x \in {} |-> PyNone]

(***************************************************************************)
(* ArgCombiner.flatten                                                     *)
(***************************************************************************)
RECURSIVE flatten(_)
RECURSIVE FlattenAll(_)
FlattenAll(xs) == IF xs = <<>> THEN <<>> ELSE flatten(Head(xs)) \o FlattenAll(Tail(xs))
flatten(e) == IF e.t = "list" THEN FlattenAll(e.v) ELSE <<e>>

(***************************************************************************)
(* ArgCombiner.interpret_args                                              *)
(* arg_values is an OrderedDict whose order is never read (only membership,*)
(* item get/set/del), so it is a function on the names it holds.           *)
(***************************************************************************)
\* Body of the first loop: one expr against arg_values.
\* (accumulate_delete_keeps_empty: the variant where Delete empties the entry
\* and keeps it.)
accumulate_delete_keeps_empty(av, e) ==
    IF e.t # "Arg" THEN av
    ELSE LET av0 == IF e.name \in DOMAIN av THEN av ELSE DictSet(av, e.name, <<>>)
         IN  IF e.append THEN DictSet(av0, e.name, av0[e.name] \o e.values)
             ELSE IF e.delete THEN DictSet(av0, e.name, <<>>)
             ELSE DictSet(av0, e.name, e.values)

accumulate(av, e) ==
    IF e.t # "Arg" THEN av
    ELSE LET av0 == IF e.name \in DOMAIN av THEN av ELSE DictSet(av, e.name, <<>>)
         IN  IF e.append THEN DictSet(av0, e.name, av0[e.name] \o e.values)
             ELSE IF e.delete THEN DictDel(av0, e.name)
             ELSE DictSet(av0, e.name, e.values)

\* "--" + expr.name
Flag(name) == PyStr(<<"-", "-">> \o name)

\* Body of the second loop: one expr against (arg_values, new_exprs).
\* (emit_every_occurrence: the variant without del arg_values[expr.name].)
emit_every_occurrence(st, e) ==
    IF e.t = "Arg" THEN
        IF e.name \in DOMAIN st.av
        THEN [av |-> st.av,
              out |-> (st.out \o <<Flag(e.name)>>) \o st.av[e.name]]
        ELSE st
    ELSE IF e.t = "Let" THEN st
    ELSE [st EXCEPT !.out = Append(st.out, e)]

emit(st, e) ==
    IF e.t = "Arg" THEN
        IF e.name \in DOMAIN st.av
        THEN [av |-> DictDel(st.av, e.name),
              out |-> (st.out \o <<Flag(e.name)>>) \o st.av[e.name]]
        ELSE st
    ELSE IF e.t = "Let" THEN st
    ELSE [st EXCEPT !.out = Append(st.out, e)]

RECURSIVE Pass1(_, _)
Pass1(es, av) == IF es = <<>> THEN av ELSE Pass1(Tail(es), accumulate(av, Head(es)))

RECURSIVE Pass2(_, _)
Pass2(es, st) == IF es = <<>> THEN st ELSE Pass2(Tail(es), emit(st, Head(es)))

interpret_args(es) == Pass2(es, [av |-> Pass1(es, EmptyDict), out |-> <<>>]).out

\* to_command up to the token list; the rendering of the tokens as one
\* string (str, shlex.quote, join) is not part of the model: a command is
\* identified by its tokens.
to_command(e) == interpret_args(flatten(e))

(***************************************************************************)
(* Helper functions: lookup_env, and the closure returned by fmt.          *)
(***************************************************************************)
ArgcombException(message) == [type |-> "ArgcombException", message |-> message]
NoException == [type |-> "", message |-> <<>>]

\* lookup_env(env, key): the value, or the exception raised.
lookup_env(env, key) ==
    IF key \notin DOMAIN env
    THEN [ok |-> FALSE, exc |-> ArgcombException(<<key, "not in env">>)]
    ELSE [ok |-> TRUE, v |-> env[key]]

\* The characters \w matches, among those the model's strings are made of.
WordChar ==
    {"a", "b", "c", "d", "e", "f", "g", "h", "i", "j", "k", "l", "m", "n", "o",
     "p", "q", "r", "s", "t", "u", "v", "w", "x", "y", "z",
     "A", "B", "C", "D", "E", "F", "G", "H", "I", "J", "K", "L", "M", "N", "O",
     "P", "Q", "R", "S", "T", "U", "V", "W", "X", "Y", "Z",
     "0", "1", "2", "3", "4", "5", "6", "7", "8", "9", "_"}
Digits == <<"0", "1", "2", "3", "4", "5", "6", "7", "8", "9">>

\* str(n) for an integer n >= 0
RECURSIVE StrOfNat(_)
StrOfNat(n) == IF n < 10 THEN <<Digits[n + 1]>>
               ELSE StrOfNat(n \div 10) \o <<Digits[(n % 10) + 1]>>

\* str(v) for the scalars an environment of the model binds.
StrOf(v) ==
    CASE v.t = "str" -> v.v
      [] v.t = "int" -> StrOfNat(v.v)
      [] v.t = "none" -> <<"N", "o", "n", "e">>

\* Length of the longest run of \w characters of s from position i on.
RECURSIVE WordRun(_, _)
WordRun(s, i) ==
    IF i <= Len(s) /\ s[i] \in WordChar THEN 1 + WordRun(s, i + 1) ELSE 0

\* re.sub(r"@\w+", lambda m: str(lookup_env(env, m.group())), string), from
\* position i on: the string, or the exception of the first failing lookup.
RECURSIVE FmtSub(_, _, _)
FmtSub(s, i, env) ==
    IF i > Len(s) THEN [ok |-> TRUE, v |-> <<>>]
    ELSE LET n == IF s[i] = "@" THEN WordRun(s, i + 1) ELSE 0
         IN  IF n = 0
             THEN LET rest == FmtSub(s, i + 1, env)
                  IN  IF rest.ok THEN [ok |-> TRUE, v |-> <<s[i]>> \o rest.v] ELSE rest
             ELSE LET found == lookup_env(env, SubSeq(s, i, i + n))
                  IN  IF ~found.ok THEN found
                      ELSE LET rest == FmtSub(s, i + n + 1, env)
                           IN  IF rest.ok
                               THEN [ok |-> TRUE, v |-> StrOf(found.v) \o rest.v]
                               ELSE rest

\* Calling the deferred expression f on env: the expression returned, or the
\* exception raised.
CallDeferred(f, env) ==
    LET r == FmtSub(f.string, 1, env)
    IN  IF r.ok THEN [ok |-> TRUE, v |-> PyStr(r.v)] ELSE r

(***************************************************************************)
(* The generators of execute_list and internal_execute.                    *)
(*                                                                         *)
(* A generator is a record: k names the point where its frame is           *)
(* suspended, the other fields are the locals alive there, the generators  *)
(* it iterates among them.  Resume(g, w) is next(g) in the world w (the    *)
(* heap of environments and the count of deferred calls): it runs the      *)
(* frame to its next yield, its return or the exception it raises.         *)
(* Environments are Python dicts passed by reference: env is an index of   *)
(* the heap.                                                               *)
(***************************************************************************)
Finished == [k |-> "finished"]
Start(fn, e, env) == [k |-> "start", fn |-> fn, expr |-> e, env |-> env]
\* A frame suspended at the last yield it can reach.
AtLastYield == [k |-> "last"]

Yield(g, e, env, w) ==
    [out |-> "yield", gen |-> g, expr |-> e, env |-> env, w |-> w, exc |-> NoException]
Return(w) ==
    [out |-> "return", gen |-> Finished, expr |-> PyNone, env |-> 0, w |-> w, exc |-> NoException]
Raise(exc, w) ==
    [out |-> "raise", gen |-> Finished, expr |-> PyNone, env |-> 0, w |-> w, exc |-> exc]

\* Lines 81-83: the generator of the rest of the list, under the environment
\* of the candidate of the first element.
\* (rest_under_list_env: the variant that passes env.)
rest_under_list_env(rest, env, new_first_env) == Start("internal_execute", rest, env)

RestGen(rest, env, new_first_env) == Start("internal_execute", rest, new_first_env)

\* Line 88: the candidate of the whole list.
Combine(new_first, new_rest) == PyList(<<new_first>> \o new_rest.v)

\* Lines 107-113: choices as a dict, or the exception.
RangeDict(xs) == [i \in 1..Len(xs) |-> <<PyInt(i - 1), xs[i]>>]
CanonicalChoices(choices) ==
    CASE choices.t = "list" -> [ok |-> TRUE, v |-> RangeDict(choices.v)]
      [] choices.t = "dict" -> [ok |-> TRUE, v |-> choices.v]
      [] OTHER -> [ok |-> FALSE, exc |-> ArgcombException(<<choices, "expected list or dict">>)]

\* Lines 116-119: which, looked up in the environment when it is a string
\* starting with "@".
LookupWhich(which, env) ==
    IF which.t = "str" /\ Len(which.v) > 0 /\ which.v[1] = "@"
    THEN lookup_env(env, which.v)
    ELSE [ok |-> TRUE, v |-> which]

\* Lines 122-127: which as a list of keys.
CanonicalWhich(which, kvs) ==
    CASE which.t = "none" -> [i \in 1..Len(kvs) |-> kvs[i][1]]
      [] which.t = "list" -> which.v
      [] OTHER -> <<which>>

HasKey(kvs, key) == \E i \in 1..Len(kvs) : kvs[i][1] = key
GetItem(kvs, key) == kvs[CHOOSE i \in 1..Len(kvs) : kvs[i][1] = key][2]

\* Line 132: the environment a choice is evaluated under: env, the one the
\* Selector was given, whatever the earlier keys have yielded (last_env).
\* (choice_under_last_env: the variant that threads the environment.)
choice_under_last_env(env, last_env) == last_env

ChoiceEnv(env, last_env) == env

\* Line 137: whether the Let evaluates its value and updates the environment.
\* (let_always_updates: the variant that ignores if_undefined.)
let_always_updates(e, env) == TRUE

LetUpdates(e, env) == ~e.if_undefined \/ e.var \notin DOMAIN env

\* Line 140: dict(list(new_env.items()) + [(expr.var, new_value)]), a new
\* dict object; the heap with it and its reference.
\* (bind_in_place: the variant new_env[expr.var] = new_value.)
bind_in_place(h, new_env, var, new_value) ==
    [heap |-> [h EXCEPT ![new_env] = DictSet(h[new_env], var, new_value)],
     env |-> new_env]

bind(h, new_env, var, new_value) ==
    [heap |-> Append(h, DictSet(h[new_env], var, new_value)),
     env |-> Len(h) + 1]

\* Line 131, the exception for a key that is not in choices.
UnknownChoice(key) == ArgcombException(<<key, "not in choices">>)

RECURSIVE Resume(_, _)

\* Passing on what the iterated generator did when it did not yield.
Ended(r) == IF r.out = "return" THEN Return(r.w) ELSE Raise(r.exc, r.w)

\* ---- execute_list (lines 74-88) ----
StartList(g, w) ==
    IF Len(g.expr.v) = 0
    THEN Yield(AtLastYield, g.expr, g.env, w)
    ELSE Resume([k |-> "list_first", rest |-> PyList(Tail(g.expr.v)), env |-> g.env,
                 first |-> Start("internal_execute", Head(g.expr.v), g.env)], w)

\* The outer for asks for the next (new_first, new_first_env).
ResumeListFirst(g, w) ==
    LET r == Resume(g.first, w)
    IN  IF r.out = "yield"
        THEN Resume([k |-> "list_rest", rest |-> g.rest, env |-> g.env,
                     first |-> r.gen, new_first |-> r.expr,
                     inner |-> RestGen(g.rest, g.env, r.env)], r.w)
        ELSE Ended(r)

\* The inner for asks for the next (new_rest, new_rest_env).
ResumeListRest(g, w) ==
    LET r == Resume(g.inner, w)
    IN  IF r.out = "yield"
        THEN IF r.expr.t # "list"
             THEN Raise([type |-> "ValueError", message |-> <<"Internal error">>], r.w)
             ELSE Yield([g EXCEPT !.inner = r.gen], Combine(g.new_first, r.expr), r.env, r.w)
        ELSE IF r.out = "return"
        THEN Resume([k |-> "list_first", rest |-> g.rest, env |-> g.env,
                     first |-> g.first], r.w)
        ELSE Raise(r.exc, r.w)

\* ---- internal_execute (lines 90-151) ----
\* for new_expr, new_env in inner: yield (new_expr, new_env)
ResumeForward(g, w) ==
    LET r == Resume(g.inner, w)
    IN  IF r.out = "yield"
        THEN Yield([g EXCEPT !.inner = r.gen], r.expr, r.env, r.w)
        ELSE Ended(r)

\* Lines 102-103.
ResumeArg(g, w) ==
    LET r == Resume(g.inner, w)
    IN  IF r.out = "yield"
        THEN Yield([g EXCEPT !.inner = r.gen], [g.expr EXCEPT !.values = r.expr.v],
                   r.env, r.w)
        ELSE Ended(r)

\* Lines 107-127, up to the for loop.
StartSelector(g, w) ==
    LET choices == CanonicalChoices(g.expr.choices)
        which == LookupWhich(g.expr.which, w.heap[g.env])
    IN  IF ~choices.ok THEN Raise(choices.exc, w)
        ELSE IF ~which.ok THEN Raise(which.exc, w)
        ELSE Resume([k |-> "selector", choices |-> choices.v,
                     which |-> CanonicalWhich(which.v, choices.v),
                     i |-> 1, env |-> g.env, last_env |-> g.env,
                     active |-> FALSE, inner |-> Finished], w)

\* Lines 129-133: the for loop over the keys, and the for loop over the
\* candidates of the choice of the current key.  last_env is new_env, the
\* variable of the inner loop, which keeps its value between the keys.
ResumeSelector(g, w) ==
    IF g.active
    THEN LET r == Resume(g.inner, w)
         IN  IF r.out = "yield"
             THEN Yield([g EXCEPT !.inner = r.gen, !.last_env = r.env], r.expr, r.env, r.w)
             ELSE IF r.out = "return"
             THEN Resume([g EXCEPT !.active = FALSE, !.inner = Finished, !.i = g.i + 1], r.w)
             ELSE Raise(r.exc, r.w)
    ELSE IF g.i > Len(g.which) THEN Return(w)
    ELSE IF ~HasKey(g.choices, g.which[g.i])
         THEN Raise(UnknownChoice(g.which[g.i]), w)
    ELSE Resume([g EXCEPT !.active = TRUE,
                          !.inner = Start("internal_execute",
                                          GetItem(g.choices, g.which[g.i]),
                                          ChoiceEnv(g.env, g.last_env))], w)

\* Lines 137-142, up to the for loop.
StartLet(g, w) ==
    IF LetUpdates(g.expr, w.heap[g.env])
    THEN Resume([k |-> "let", expr |-> g.expr,
                 inner |-> Start("internal_execute", g.expr.value, g.env)], w)
    ELSE Yield(AtLastYield, g.expr, g.env, w)

\* Lines 139-140.
ResumeLet(g, w) ==
    LET r == Resume(g.inner, w)
    IN  IF r.out = "yield"
        THEN LET b == bind(r.w.heap, r.env, g.expr.var, r.expr)
             IN  Yield([g EXCEPT !.inner = r.gen], g.expr, b.env,
                       [r.w EXCEPT !.heap = b.heap])
        ELSE Ended(r)

\* Lines 144-147.
StartCallable(g, w) ==
    LET called == CallDeferred(g.expr, w.heap[g.env])
        w1 == [w EXCEPT !.calls = w.calls + 1]
    IN  IF ~called.ok THEN Raise(called.exc, w1)
        ELSE Resume([k |-> "forward",
                     inner |-> Start("internal_execute", called.v, g.env)], w1)

\* The dispatch of internal_execute on the type of expr.
StartInternal(g, w) ==
    CASE g.expr.t = "list" ->
            Resume([k |-> "forward", inner |-> Start("execute_list", g.expr, g.env)], w)
      [] g.expr.t = "Arg" ->
            Resume([k |-> "arg", expr |-> g.expr,
                    inner |-> Start("execute_list", PyList(g.expr.values), g.env)], w)
      [] g.expr.t = "Selector" -> StartSelector(g, w)
      [] g.expr.t = "Let" -> StartLet(g, w)
      [] g.expr.t = "fn" -> StartCallable(g, w)
      [] OTHER -> Yield(AtLastYield, g.expr, g.env, w)

Resume(g, w) ==
    CASE g.k = "finished" -> Return(w)
      [] g.k = "last" -> Return(w)
      [] g.k = "start" /\ g.fn = "execute_list" -> StartList(g, w)
      [] g.k = "start" /\ g.fn = "internal_execute" -> StartInternal(g, w)
      [] g.k = "list_first" -> ResumeListFirst(g, w)
      [] g.k = "list_rest" -> ResumeListRest(g, w)
      [] g.k = "forward" -> ResumeForward(g, w)
      [] g.k = "arg" -> ResumeArg(g, w)
      [] g.k = "selector" -> ResumeSelector(g, w)
      [] g.k = "let" -> ResumeLet(g, w)

\* list(generator): every candidate with the content of its environment when
\* it was yielded, and how the enumeration ended.
RECURSIVE Drain(_, _, _)
Drain(g, w, acc) ==
    LET r == Resume(g, w)
    IN  IF r.out = "yield"
        THEN Drain(r.gen, r.w, Append(acc, [expr |-> r.expr, env |-> r.w.heap[r.env]]))
        ELSE [ys |-> acc, out |-> r.out, exc |-> r.exc, calls |-> r.w.calls]

\* The candidates of internal_execute(e, env) for an environment of content env.
Candidates(e, env) ==
    Drain(Start("internal_execute", e, 1), [heap |-> <<env>>, calls |-> 0], <<>>)

(***************************************************************************)
(* SpecArgs: one call of interpret_args on a drawn flat token list, a step *)
(* per loop iteration.                                                     *)
(***************************************************************************)
NameA == <<"a">>
NameB == <<"b">>
LitX == PyStr(<<"x">>)
LetTok == Let(<<"@", "x">>, PyInt(1), FALSE)

\* The tokens drawn: a literal, a Let, and for two names Arg tokens of every
\* mode, with no, one or another value.
Tokens ==
    { LitX, LetTok,
      Arg(NameA, <<PyInt(1)>>, FALSE, FALSE),
      Arg(NameA, <<PyInt(2)>>, TRUE, FALSE),
      Arg(NameA, <<>>, FALSE, TRUE),
      Arg(NameB, <<>>, FALSE, FALSE),
      Arg(NameB, <<PyInt(3)>>, TRUE, FALSE),
      Arg(NameB, <<>>, FALSE, TRUE) }

RECURSIVE SeqsUpTo(_, _)
SeqsUpTo(S, n) ==
    IF n = 0 THEN {<<>>}
    ELSE LET shorter == SeqsUpTo(S, n - 1)
         IN  shorter \cup {Append(s, x) : s \in {q \in shorter : Len(q) = n - 1}, x \in S}

EvalIdle ==
    /\ expr = PyNone /\ extra_args = <<>> /\ pretend = FALSE
    /\ heap = <<>> /\ calls = 0 /\ gen = [k |-> "finished"] /\ pc = "idle"
    /\ results = <<>> /\ stdout = <<>> /\ executed = <<>> /\ stderr = <<>>
    /\ exit_status = -1

ArgsInit ==
    /\ exprs \in SeqsUpTo(Tokens, MaxTokens)
    /\ arg_values = EmptyDict
    /\ new_exprs = <<>>
    /\ idx = 1
    /\ apc = "pass1"
    /\ EvalIdle

\* One iteration of the first loop (lines 166-175); when the list is
\* exhausted the second loop starts.
AccumulateStep ==
    /\ apc = "pass1"
    /\ IF idx <= Len(exprs)
       THEN /\ arg_values' = accumulate(arg_values, exprs[idx])
            /\ idx' = idx + 1
            /\ UNCHANGED <<apc, new_exprs>>
       ELSE /\ apc' = "pass2"
            /\ idx' = 1
            /\ new_exprs' = <<>>
            /\ UNCHANGED arg_values
    /\ UNCHANGED <<exprs, evars>>

\* One iteration of the second loop (lines 178-189); when the list is
\* exhausted new_exprs is returned.
EmitStep ==
    /\ apc = "pass2"
    /\ IF idx <= Len(exprs)
       THEN LET st == emit([av |-> arg_values, out |-> new_exprs], exprs[idx])
            IN  /\ arg_values' = st.av
                /\ new_exprs' = st.out
                /\ idx' = idx + 1
                /\ apc' = apc
       ELSE /\ apc' = "returned"
            /\ UNCHANGED <<arg_values, new_exprs, idx>>
    /\ UNCHANGED <<exprs, evars>>

ArgsNext == AccumulateStep \/ EmitStep

SpecArgs == ArgsInit /\ [][ArgsNext]_vars


(***************************************************************************)
(* The expressions and environments drawn as inputs.                       *)
(***************************************************************************)
VarX == <<"@", "x">>
VarM == <<"@", "m">>
KeyA == PyStr(<<"a">>)
KeyB == PyStr(<<"b">>)
LitP == PyStr(<<"p">>)
LitW == PyStr(<<"w">>)
FmtX == fmt(<<"i", "=", "@", "x">>)       \* fmt("i=@x")
FmtY == fmt(<<"@", "y">>)                 \* fmt("@y"), @y is never bound
LetX3 == Let(VarX, PyInt(3), FALSE)       \* let("@x", 3)
LetX4U == Let(VarX, PyInt(4), TRUE)       \* let_if_undefined("@x", 4)

Envs ==
    { EmptyDict,
      [v \in {VarX} |-> PyInt(7)],
      [v \in {VarM} |-> PyInt(1)],
      [v \in {VarM} |-> PyList(<<PyInt(1), PyInt(0)>>)],
      [v \in {VarM, VarX} |-> IF v = VarM THEN KeyA ELSE PyInt(7)] }

\* What a Selector chooses among.
Bodies == { LitP, LetX3, FmtX, PyList(<<Let(VarX, PyInt(5), FALSE), FmtX>>) }

Whichs ==
    { PyNone, PyInt(0), PyInt(1), PyInt(2),
      PyList(<<PyInt(0), PyInt(1)>>), PyList(<<PyInt(1), PyInt(0)>>),
      PyList(<<PyInt(0), PyInt(2), PyInt(1)>>),
      PyStr(VarM), KeyA, PyList(<<KeyB, KeyA>>) }

ChoicesSet ==
    {PyList(<<c, d>>) : c \in Bodies, d \in Bodies}
    \cup {PyDict(<< <<KeyA, c>>, <<KeyB, d>> >>) : c \in Bodies, d \in Bodies}
    \cup {LitP}                           \* neither a list nor a dict

Selectors == {Selector(w, c) : w \in Whichs, c \in ChoicesSet}

SelXs == Selector(PyNone, PyList(<<Let(VarX, PyInt(1), FALSE), Let(VarX, PyInt(2), FALSE)>>))
SelLetOrLit == Selector(PyNone, PyList(<<LetX3, LitP>>))
SelLitOrFmt == Selector(PyNone, PyList(<<LitP, FmtX>>))
SelByM == Selector(PyStr(VarM), PyDict(<< <<KeyA, LitP>>, <<KeyB, FmtX>> >>))
SelMissing == Selector(PyList(<<PyInt(0), PyInt(2)>>), PyList(<<LitP, LitW>>))

Lets ==
    {Let(VarX, v, u) :
        v \in {PyInt(3), FmtX, FmtY, SelXs, SelMissing,
               Selector(PyNone, PyList(<<PyInt(1), PyInt(2)>>))},
        u \in BOOLEAN}

\* The elements of the lists drawn.
Elements ==
    { LitP, LetX3, LetX4U, FmtX, SelXs, SelLetOrLit, SelLitOrFmt, SelByM, SelMissing,
      Arg(NameA, <<FmtX>>, FALSE, FALSE),
      Arg(NameA, <<PyInt(2)>>, TRUE, FALSE),
      Arg(NameB, <<LetX3>>, FALSE, FALSE),
      PyList(<<LitW, PyList(<<LitP>>)>>) }

Lists == {PyList(xs) : xs \in SeqsUpTo(Elements, MaxItems)}

\* The expressions and initial environments run is given.
RunElements ==
    { LitP, LetX3, FmtX, SelXs, SelByM, SelMissing,
      Arg(NameA, <<FmtX>>, FALSE, FALSE),
      Arg(NameA, <<PyInt(2)>>, TRUE, FALSE),
      Arg(NameB, <<LetX3>>, FALSE, FALSE),
      PyList(<<LitW, PyList(<<LitP>>)>>) }
RunLists == {PyList(xs) : xs \in SeqsUpTo(RunElements, MaxItems)}
RunEnvs ==
    { EmptyDict,
      [v \in {VarM, VarX} |-> IF v = VarM THEN KeyA ELSE PyInt(7)] }

ArgsIdle ==
    /\ exprs = <<>> /\ arg_values = EmptyDict /\ new_exprs = <<>> /\ idx = 1
    /\ apc = "idle"

(***************************************************************************)
(* SpecEval: a consumer iterates internal_execute(expr, env) to its end,   *)
(* keeping every pair it receives, as the loop of check does               *)
(* (test_argcomb.py, lines 10-11).                                         *)
(***************************************************************************)
EvalInit ==
    /\ expr \in Selectors \cup Lets \cup Lists \cup Elements
    /\ \E env \in Envs : heap = <<env>>
    /\ gen = Start("internal_execute", expr, 1)
    /\ calls = 0
    /\ pc = "iterating"
    /\ results = <<>>
    /\ stderr = <<>>
    /\ extra_args = <<>> /\ pretend = FALSE
    /\ stdout = <<>> /\ executed = <<>> /\ exit_status = -1
    /\ ArgsIdle

\* next(gen): a pair is received, or the iteration ends, or the exception
\* propagates to the consumer.
EvalNext ==
    /\ pc = "iterating"
    /\ LET r == Resume(gen, [heap |-> heap, calls |-> calls])
       IN  /\ gen' = r.gen
           /\ heap' = r.w.heap
           /\ calls' = r.w.calls
           /\ IF r.out = "yield"
              THEN /\ results' = Append(results, [expr |-> r.expr, env |-> r.env,
                                                  snapshot |-> r.w.heap[r.env]])
                   /\ UNCHANGED <<pc, stderr>>
              ELSE IF r.out = "return"
              THEN /\ pc' = "exhausted"
                   /\ UNCHANGED <<results, stderr>>
              ELSE /\ pc' = "raised"
                   /\ stderr' = <<r.exc>>
                   /\ UNCHANGED results
    /\ UNCHANGED <<expr, extra_args, pretend, stdout, executed, exit_status, avars>>

SpecEval == EvalInit /\ [][EvalNext]_vars

(***************************************************************************)
(* Properties of the evaluator, on a finished iteration.                   *)
(***************************************************************************)
IterationEnded == pc \in {"exhausted", "raised"}
InitEnv == heap[1]
\* The pairs received, each with the content its environment had then.
Received == [i \in 1..Len(results) |->
                [expr |-> results[i].expr, env |-> results[i].snapshot]]
RaisedExc == IF pc = "raised" THEN stderr[1] ELSE NoException

\* The threaded cross product of the claim: for each candidate (v0, env0) of
\* the first element, in order, each candidate (rest, env1) of the rest under
\* env0, in order, gives ([v0] ++ rest, env1); an exception ends it.
RECURSIVE CrossFrom(_, _, _)
CrossFrom(firsts, i, rest) ==
    IF i > Len(firsts.ys) THEN [ys |-> <<>>, exc |-> firsts.exc]
    ELSE LET rests == Candidates(rest, firsts.ys[i].env)
             mine == [j \in 1..Len(rests.ys) |->
                        [expr |-> PyList(<<firsts.ys[i].expr>> \o rests.ys[j].expr.v),
                         env |-> rests.ys[j].env]]
         IN  IF rests.out = "raise" THEN [ys |-> mine, exc |-> rests.exc]
             ELSE LET more == CrossFrom(firsts, i + 1, rest)
                  IN  [ys |-> mine \o more.ys, exc |-> more.exc]

Cross(e, env) ==
    IF Len(e.v) = 0 THEN [ys |-> <<[expr |-> e, env |-> env]>>, exc |-> NoException]
    ELSE CrossFrom(Candidates(Head(e.v), env), 1, PyList(Tail(e.v)))

\* C1: a list yields exactly the left-to-right threaded cross product of its
\* elements, the first element varying slowest and each later element
\* evaluated under the environment of the elements to its left; an empty
\* list yields ([], env) alone.
C1_ListIsThreadedCrossProduct ==
    (IterationEnded /\ expr.t = "list") =>
        /\ Received = Cross(expr, InitEnv).ys
        /\ RaisedExc = Cross(expr, InitEnv).exc

\* Two elements of two candidates each, the second a deferred expression
\* reading the variable the first binds: four results, the first element
\* varying slowest.
C1_Witness ==
    /\ pc = "exhausted"
    /\ expr = PyList(<<SelXs, SelLitOrFmt>>)
    /\ Len(results) = 4
    /\ results[1].expr.v[1] = results[2].expr.v[1]
    /\ results[2].expr.v[1] # results[3].expr.v[1]
    /\ results[2].expr.v[2] = PyStr(<<"i", "=", "1">>)
    /\ results[4].expr.v[2] = PyStr(<<"i", "=", "2">>)

\* The keys of the claim: None is every key of choices in order, a list is
\* the list, any other value is that one key; a string starting with "@" is
\* first replaced by its value in env.
KeysOf(choices) ==
    IF choices.t = "list" THEN [i \in 1..Len(choices.v) |-> PyInt(i - 1)]
    ELSE [i \in 1..Len(choices.v) |-> choices.v[i][1]]
ChoiceOf(choices, key) ==
    IF choices.t = "list" THEN choices.v[key.v + 1]
    ELSE choices.v[CHOOSE i \in 1..Len(choices.v) : choices.v[i][1] = key][2]
IsVariable(which) == which.t = "str" /\ which.v # <<>> /\ Head(which.v) = "@"
NormalizedWhich(which, choices) ==
    IF which.t = "none" THEN KeysOf(choices)
    ELSE IF which.t = "list" THEN which.v
    ELSE <<which>>

RECURSIVE UnionOfKeys(_, _, _)
UnionOfKeys(keys, choices, env) ==
    IF keys = <<>> THEN [ys |-> <<>>, raised |-> FALSE]
    ELSE IF \A i \in 1..Len(KeysOf(choices)) : KeysOf(choices)[i] # Head(keys)
         THEN [ys |-> <<>>, raised |-> TRUE]
    ELSE LET mine == Candidates(ChoiceOf(choices, Head(keys)), env)
         IN  IF mine.out = "raise" THEN [ys |-> mine.ys, raised |-> TRUE]
             ELSE LET more == UnionOfKeys(Tail(keys), choices, env)
                  IN  [ys |-> mine.ys \o more.ys, raised |-> more.raised]

SelectorDenotes(e, env) ==
    IF IsVariable(e.which) /\ e.which.v \notin DOMAIN env
    THEN [ys |-> <<>>, raised |-> TRUE]
    ELSE UnionOfKeys(NormalizedWhich(IF IsVariable(e.which) THEN env[e.which.v]
                                     ELSE e.which, e.choices),
                     e.choices, env)

\* C2: a Selector yields, for each key of the normalized which in order, the
\* candidates of choices[key] evaluated under the environment the Selector
\* was given, never under one an earlier key produced; a key that is not in
\* choices raises.
C2_SelectorIsUnionOverKeys ==
    (IterationEnded /\ expr.t = "Selector" /\ expr.choices.t \in {"list", "dict"}) =>
        /\ Received = SelectorDenotes(expr, InitEnv).ys
        /\ (pc = "raised") = SelectorDenotes(expr, InitEnv).raised
        /\ pc = "raised" => stderr[1].type = "ArgcombException"

\* Keys given as [1, 0]: the second choice first; the Let of the first
\* choice, evaluated last, has not changed what the deferred one read.
C2_Witness ==
    /\ pc = "exhausted"
    /\ expr = Selector(PyList(<<PyInt(0), PyInt(1)>>), PyList(<<LetX3, FmtX>>))
    /\ VarX \in DOMAIN InitEnv
    /\ Len(results) = 2
    /\ results[1].snapshot[VarX] = PyInt(3)
    /\ results[2].expr = PyStr(<<"i", "=", "7">>)
    /\ results[2].snapshot = InitEnv

\* C3: a Let of x without if_undefined yields, for each candidate (v, env')
\* of its value, itself with env' where x is v; with if_undefined and x
\* already in env it yields itself once with env unchanged and its value is
\* not evaluated: no deferred call is made, no exception raised.
C3_LetBindsOrKeeps ==
    (IterationEnded /\ expr.t = "Let") =>
        /\ ~expr.if_undefined =>
              LET vs == Candidates(expr.value, InitEnv)
              IN  /\ Received = [i \in 1..Len(vs.ys) |->
                                    [expr |-> expr,
                                     env |-> [x \in DOMAIN vs.ys[i].env \cup {expr.var} |->
                                                IF x = expr.var THEN vs.ys[i].expr
                                                ELSE vs.ys[i].env[x]]]]
                  /\ RaisedExc = vs.exc
        /\ (expr.if_undefined /\ expr.var \in DOMAIN InitEnv) =>
              /\ Received = <<[expr |-> expr, env |-> InitEnv]>>
              /\ pc = "exhausted"
              /\ calls = 0

\* let_if_undefined("@x", fmt("@y")) where @x is bound and @y is not: the
\* value, which would raise, is not called.
C3_Witness ==
    /\ pc = "exhausted"
    /\ expr = Let(VarX, FmtY, TRUE)
    /\ VarX \in DOMAIN InitEnv
    /\ Len(results) = 1
    /\ calls = 0

\* The variables of the Let nodes of a result: those on the branch the
\* result was made on (TopVars), and with them those of the Let nodes inside
\* the value of a Let (DeepVars).
RECURSIVE LetVars(_, _)
RECURSIVE LetVarsOfAll(_, _)
LetVarsOfAll(xs, deep) ==
    IF xs = <<>> THEN {} ELSE LetVars(Head(xs), deep) \cup LetVarsOfAll(Tail(xs), deep)
LetVars(e, deep) ==
    CASE e.t = "list" -> LetVarsOfAll(e.v, deep)
      [] e.t = "Arg" -> LetVarsOfAll(e.values, deep)
      [] e.t = "Let" -> {e.var} \cup (IF deep THEN LetVars(e.value, deep) ELSE {})
      [] e.t = "Selector" ->
            IF ~deep THEN {}
            ELSE IF e.choices.t = "list" THEN LetVarsOfAll(e.choices.v, deep)
            ELSE IF e.choices.t = "dict"
                 THEN LetVarsOfAll([i \in 1..Len(e.choices.v) |-> e.choices.v[i][2]], deep)
            ELSE {}
      [] OTHER -> {}

ResultEnvsAreOwnBranch ==
    \A i \in 1..Len(results) :
        LET res == results[i]
        IN  /\ heap[res.env] = res.snapshot
            /\ DOMAIN InitEnv \cup LetVars(res.expr, FALSE) \subseteq DOMAIN res.snapshot
            /\ DOMAIN res.snapshot \subseteq DOMAIN InitEnv \cup LetVars(res.expr, TRUE)
            /\ \A x \in DOMAIN res.snapshot \ LetVars(res.expr, TRUE) :
                  res.snapshot[x] = InitEnv[x]

\* C7: evaluation never changes an environment that exists, the initial one
\* included: a Let makes a new one.  So the environment of every result
\* received, whenever it is looked at, is the initial bindings and the
\* bindings of the Let nodes of its own branch, never one of a sibling branch.
C7_EnvironmentsNeverMutated ==
    [][ /\ \A r \in DOMAIN heap : r \in DOMAIN heap' /\ heap'[r] = heap[r]
        /\ ResultEnvsAreOwnBranch' ]_vars

\* A Selector whose first choice binds @x and whose second binds nothing:
\* the second result has the initial environment, without @x.
C7_Witness ==
    /\ pc = "exhausted"
    /\ expr = SelLetOrLit
    /\ Len(results) = 2
    /\ VarX \in DOMAIN results[1].snapshot
    /\ VarX \notin DOMAIN results[2].snapshot
    /\ heap[results[2].env] = InitEnv
    /\ Len(heap) = 2

(***************************************************************************)
(* Spec: ArgCombiner.run(expr) on a constructed ArgCombiner.               *)
(***************************************************************************)
\* What os.system returns: the wait status of the shell, the exit code in
\* the high byte, the terminating signal in the low byte.  Exit codes 0, 1
\* and 2, and a command killed by signal 9.
WaitStatuses == {0, 256, 512, 9}

Init ==
    /\ expr \in RunLists \cup {LitP}
    /\ extra_args \in {<<>>, <<LitW>>}
    /\ pretend \in BOOLEAN
    /\ \E env \in RunEnvs : heap = <<env>>  \* self.init_env
    /\ gen = Finished
    /\ calls = 0
    /\ pc = "run"
    /\ results = <<>>
    /\ stdout = <<>> /\ executed = <<>> /\ stderr = <<>>
    /\ exit_status = -1
    /\ ArgsIdle

\* except ArgcombException (lines 213-215), and any other exception.
\* (handle_and_continue: the variant without sys.exit(1).)
handle_and_continue(exc) ==
    IF exc.type = "ArgcombException"
    THEN /\ stderr' = Append(stderr, exc.message)
         /\ UNCHANGED <<pc, exit_status>>
    ELSE /\ pc' = "crashed"
         /\ UNCHANGED <<stderr, exit_status>>

Handle(exc) ==
    IF exc.type = "ArgcombException"
    THEN /\ stderr' = Append(stderr, exc.message)
         /\ exit_status' = 1
         /\ pc' = "exited"
    ELSE /\ pc' = "crashed"
         /\ UNCHANGED <<stderr, exit_status>>

\* self.execute(expr, self.init_env), lines 69-72 called from line 203.
Execute ==
    /\ pc = "run"
    /\ IF expr.t # "list"
       THEN /\ Handle(ArgcombException(<<expr, "expect a list">>))
            /\ UNCHANGED gen
       ELSE /\ gen' = Start("internal_execute", PyList(expr.v \o extra_args), 1)
            /\ pc' = "loop"
            /\ UNCHANGED <<stderr, exit_status>>
    /\ UNCHANGED <<expr, extra_args, pretend, heap, calls, results, stdout, executed, avars>>

\* Whether the status os.system returned ends the run, lines 210-211.
Stops(raw_exitcode) == (raw_exitcode \div 256) # 0

\* One iteration of the for loop of run, lines 203-212: the next candidate
\* is asked for and, when there is one, its command is printed or executed.
Iterate ==
    /\ pc = "loop"
    /\ LET r == Resume(gen, [heap |-> heap, calls |-> calls])
       IN  /\ gen' = r.gen
           /\ heap' = r.w.heap
           /\ calls' = r.w.calls
           /\ IF r.out = "yield"
              THEN /\ results' = Append(results, [expr |-> r.expr, env |-> r.env,
                                                  snapshot |-> r.w.heap[r.env]])
                   /\ UNCHANGED stderr
                   /\ IF pretend
                      THEN /\ stdout' = Append(stdout, to_command(r.expr))
                           /\ UNCHANGED <<executed, pc, exit_status>>
                      ELSE \E raw_exitcode \in WaitStatuses :
                              /\ executed' = Append(executed,
                                     [command |-> to_command(r.expr), status |-> raw_exitcode])
                              /\ UNCHANGED stdout
                              /\ IF Stops(raw_exitcode)
                                 THEN /\ exit_status' = raw_exitcode \div 256
                                      /\ pc' = "exited"
                                 ELSE UNCHANGED <<pc, exit_status>>
              ELSE IF r.out = "return"
              THEN /\ pc' = "returned"
                   /\ UNCHANGED <<results, stdout, executed, stderr, exit_status>>
              ELSE /\ Handle(r.exc)
                   /\ UNCHANGED <<results, stdout, executed>>
    /\ UNCHANGED <<expr, extra_args, pretend, avars>>

Next == Execute \/ Iterate

Spec == Init /\ [][Next]_vars

(***************************************************************************)
(* Properties of run.                                                      *)
(***************************************************************************)
\* The commands printed or executed so far.
Commands ==
    {stdout[i] : i \in 1..Len(stdout)} \cup {executed[i].command : i \in 1..Len(executed)}

\* C6: the tokens of a command, interpret_args(flatten(result)), are literal
\* atoms only: no Arg, no Let, no list, the values after a flag included.
C6_OnlyLiteralAtoms ==
    \A c \in Commands : \A i \in 1..Len(c) : c[i].t \in {"none", "int", "str"}

\* C8: an ArgcombException raised while enumerating ends the enumeration:
\* the results received are those yielded before it, the generator yields
\* nothing more, and run prints the message and exits with status 1.
C8_ErrorAbortsRun ==
    (expr.t = "list" /\ stderr # <<>>) =>
        /\ pc = "exited" /\ exit_status = 1 /\ Len(stderr) = 1
        /\ ~ENABLED Next
        /\ Resume(gen, [heap |-> heap, calls |-> calls]).out = "return"
        /\ LET all == Candidates(PyList(expr.v \o extra_args), InitEnv)
           IN  /\ all.out = "raise"
               /\ stderr[1] = all.exc.message
               /\ Received = all.ys
        /\ Len(stdout) + Len(executed) = Len(results)

\* The second key of the second Selector is not in its choices: one command
\* was run, the candidates of the second choice of the first Selector never
\* were.
C8_Witness ==
    /\ expr = PyList(<<SelXs, SelMissing>>)
    /\ ~pretend /\ extra_args = <<>>
    /\ pc = "exited" /\ exit_status = 1
    /\ Len(executed) = 1 /\ executed[1].status = 0
    /\ stderr = << <<PyInt(2), "not in choices">> >>

\* C9: without pretend, the first command whose execution does not succeed
\* (os.system returns a status that is not 0) ends the run with a status
\* that is not 0, nothing being executed after it; the run ends with success
\* only if every command executed succeeded.
C9_FirstFailureStopsRun ==
    \A i \in 1..Len(executed) :
        executed[i].status # 0 =>
            /\ i = Len(executed)
            /\ pc = "exited"
            /\ exit_status = executed[i].status \div 256
            /\ exit_status # 0

(***************************************************************************)
(* Properties of interpret_args, stated on the tokens alone.               *)
(***************************************************************************)
Names == {NameA, NameB}
ArgIndexes(n) == {i \in 1..Len(exprs) : exprs[i].t = "Arg" /\ exprs[i].name = n}
Min(S) == CHOOSE x \in S : \A y \in S : x <= y
Max(S) == CHOOSE x \in S : \A y \in S : x >= y

\* The fold of the claim: the Argument tokens of name n, in order, over an
\* entry that is absent at first.
RECURSIVE Fold(_, _, _)
Fold(n, es, entry) ==
    IF es = <<>> THEN entry
    ELSE LET e == Head(es)
             next == IF e.t # "Arg" \/ e.name # n THEN entry
                     ELSE IF e.append
                          THEN [present |-> TRUE, values |-> entry.values \o e.values]
                     ELSE IF e.delete
                          THEN [present |-> FALSE, values |-> <<>>]
                     ELSE [present |-> TRUE, values |-> e.values]
         IN  Fold(n, Tail(es), next)
Absent == [present |-> FALSE, values |-> <<>>]
Folded(n) == Fold(n, exprs, Absent)

FlagIndexes(n) == {p \in 1..Len(new_exprs) : new_exprs[p] = Flag(n)}

\* The values that follow position p of the output: the literal atoms and
\* the flags drawn are strings, the values of the Arg tokens are integers.
RECURSIVE ValuesAfter(_, _)
ValuesAfter(out, p) ==
    IF p + 1 <= Len(out) /\ out[p + 1].t = "int"
    THEN <<out[p + 1]>> \o ValuesAfter(out, p + 1)
    ELSE <<>>

\* C4: the values emitted after the flag of a name are the fold of the name's
\* Argument tokens (Append extends, Delete removes, Replace sets), and a name
\* whose entry is absent after the fold produces no flag at all.
C4_ValuesAreTheFold ==
    apc = "returned" =>
        \A n \in Names :
            IF Folded(n).present
            THEN /\ FlagIndexes(n) # {}
                 /\ \A p \in FlagIndexes(n) : ValuesAfter(new_exprs, p) = Folded(n).values
            ELSE FlagIndexes(n) = {}

\* An append after a replace has accumulated two values under one name while
\* the other name, deleted last, left nothing.
C4_Witness ==
    /\ apc = "returned"
    /\ Folded(NameA) = [present |-> TRUE, values |-> <<PyInt(1), PyInt(2)>>]
    /\ ArgIndexes(NameB) # {} /\ ~Folded(NameB).present
    /\ exprs[Max(ArgIndexes(NameB))].delete

\* The output the tokens denote when the flag of each name n is placed at the
\* token of index emitAt[n]: literal atoms verbatim, Let dropped, the Arg
\* token at emitAt[n] replaced by the flag and the folded values of n, every
\* other Arg token by nothing.
RECURSIVE Pieces(_, _)
Pieces(emitAt, i) ==
    IF i > Len(exprs) THEN <<>>
    ELSE LET e == exprs[i]
             piece == IF e.t = "Arg"
                      THEN IF Folded(e.name).present /\ i = emitAt[e.name]
                           THEN <<Flag(e.name)>> \o Folded(e.name).values
                           ELSE <<>>
                      ELSE IF e.t = "Let" THEN <<>>
                      ELSE <<e>>
         IN  piece \o Pieces(emitAt, i + 1)

FirstIndex(n) == IF ArgIndexes(n) = {} THEN 0 ELSE Min(ArgIndexes(n))
AtFirst == [n \in Names |-> FirstIndex(n)]

\* C10: the flag of a name appears at most once, at the first Argument token
\* of that name whatever its mode, followed by the accumulated values; later
\* tokens of the name emit nothing; the other atoms are kept in order.
C10_FlagOnceAtFirstOccurrence ==
    apc = "returned" =>
        /\ \A n \in Names : Cardinality(FlagIndexes(n)) <= 1
        /\ new_exprs = Pieces(AtFirst, 1)

\* A name with several Argument tokens, the first of them a Delete, emitted
\* once and after a literal atom.
C10_Witness ==
    /\ apc = "returned"
    /\ \E n \in Names :
        /\ Cardinality(ArgIndexes(n)) >= 2
        /\ exprs[FirstIndex(n)].delete
        /\ \E p \in FlagIndexes(n) : p > 1 /\ new_exprs[1] = LitX

\* A name is resurrected when it occurs, is then deleted and is set again
\* later; ResetIndex is the first Replace or Append after its last Delete.
DeleteIndexes(n) ==
    {j \in ArgIndexes(n) : exprs[j].delete /\ ~exprs[j].append /\ j > FirstIndex(n)}
Resurrected(n) ==
    /\ DeleteIndexes(n) # {}
    /\ \E k \in ArgIndexes(n) : k > Max(DeleteIndexes(n))
ResetIndex(n) == Min({k \in ArgIndexes(n) : k > Max(DeleteIndexes(n))})
AtLater == [n \in Names |-> IF Resurrected(n) THEN ResetIndex(n) ELSE FirstIndex(n)]

\* C5 as stated: a name deleted and set again later is emitted at the
\* position of the later, re-setting occurrence.
C5_EmittedAtLaterOccurrence ==
    apc = "returned" => new_exprs = Pieces(AtLater, 1)

RECURSIVE PiecesBefore(_, _, _)
PiecesBefore(emitAt, i, stop) ==
    IF i >= stop THEN <<>>
    ELSE LET e == exprs[i]
             piece == IF e.t = "Arg"
                      THEN IF Folded(e.name).present /\ i = emitAt[e.name]
                           THEN <<Flag(e.name)>> \o Folded(e.name).values
                           ELSE <<>>
                      ELSE IF e.t = "Let" THEN <<>>
                      ELSE <<e>>
         IN  piece \o PiecesBefore(emitAt, i + 1, stop)

\* C5 amended: a name deleted and set again later is emitted at the position
\* of its first occurrence, with the values accumulated since the Delete.
C5_EmittedAtFirstOccurrence ==
    apc = "returned" =>
        \A n \in Names :
            Resurrected(n) =>
                /\ FlagIndexes(n) = {1 + Len(PiecesBefore(AtFirst, 1, FirstIndex(n)))}
                /\ ValuesAfter(new_exprs, 1 + Len(PiecesBefore(AtFirst, 1, FirstIndex(n))))
                       = Folded(n).values

\* Set, then a literal, then deleted, then set again: the flag comes before
\* the literal.
C5_Witness ==
    /\ apc = "returned"
    /\ Resurrected(NameA)
    /\ \E i \in FirstIndex(NameA) + 1 .. ResetIndex(NameA) - 1 : exprs[i] = LitX
    /\ FlagIndexes(NameA) # {}

====
